---- MODULE Spec2Model ----
(***************************************************************************)
(* ksubst: substitution of ${NAME}-style placeholders (src/src/lib.rs).    *)
(*                                                                         *)
(* Text is a sequence of one-character strings.  The three public          *)
(* functions substitute, is_templated and validate_vars are operators      *)
(* computed the way the code computes them; the regular expression of      *)
(* lines 57 and 85 is a hand-written matcher with the regex crate's        *)
(* leftmost-first, greedy semantics.  The state machine is a caller that   *)
(* holds a template and a variable mapping and calls the three functions.  *)
(***************************************************************************)
EXTENDS Naturals, Sequences, FiniteSets, TLC

VARIABLES
    parts,      \* how the template text was put together (pieces, in order)
    template,   \* the template text handed to substitute / is_templated
    variables,  \* the HashMap<String, String> handed to substitute / validate_vars
    pc,         \* which call was made last: "start" (none yet), "substituted",
                \* "detected", "validated", "redetected"
    output,     \* Result<String, Error> returned by substitute (None before the call)
    verdict,    \* Result<(), Error> returned by validate_vars (None before the call)
    detected    \* value returned by is_templated (FALSE before the call)

vars == <<parts, template, variables, pc, output, verdict, detected>>

----------------------------------------------------------------------------
(* Bounds of the model.                                                    *)

\* pieces per structured template
MaxParts == 3
\* characters per exhaustively enumerated template
MaxLen == 5
\* entries per variable mapping
MaxVars == 2
\* characters per exhaustively enumerated key or value
MaxText == 2

----------------------------------------------------------------------------
(* Results.                                                                *)

None == [tag |-> "None", val |-> <<>>, msg |-> <<>>]
Ok(s) == [tag |-> "Ok", val |-> s, msg |-> <<>>]
Err(m) == [tag |-> "Err", val |-> <<>>, msg |-> m]

----------------------------------------------------------------------------
(* The pattern of lib.rs lines 57 and 85: a dollar sign, an opening brace,  *)
(* group 1 (one name-start character, then name characters, greedy),       *)
(* optional group 2 (one marker, then characters other than the closing    *)
(* brace, greedy), a closing brace.  Character classes are taken over      *)
(* the characters the model uses.                                          *)

\* the ASCII letters and digits among the characters the model uses
Letters == {"V", "v", "x"}
Digits == {"1"}

\* [A-Za-z_]
IsNameStart(c) == c \in Letters \cup {"_"}

\* [A-Za-z0-9_]
IsNameChar(c) == c \in Letters \cup Digits \cup {"_"}

\* the marker class widened to anything but the closing brace
IsMarker_any(c) == c # "}"

\* [\.\-]
IsMarker(c) == c \in {".", "-"}

\* [^}]
IsSuffixChar(c) == c # "}"

NoMatch ==
    [found |-> FALSE, start |-> 0, end |-> 0, whole |-> <<>>, name |-> <<>>, suffix |-> <<>>]

\* index of the first character at or after i that is not a name character
\* (Len(text) + 1 when the name runs to the end): the greedy name class
RECURSIVE NameEnd(_, _)
NameEnd(text, i) ==
    IF i <= Len(text) /\ IsNameChar(text[i]) THEN NameEnd(text, i + 1) ELSE i

\* index of the first character at or after i that [^}] does not accept
\* (Len(text) + 1 when there is none): the greedy suffix class
RECURSIVE SuffixEnd(_, _)
SuffixEnd(text, i) ==
    IF i <= Len(text) /\ IsSuffixChar(text[i]) THEN SuffixEnd(text, i + 1) ELSE i

\* the match of the pattern that starts exactly at index i, with its capture
\* groups 0 (whole), 1 (name) and 2 (suffix, "" when the group did not take part)
MatchAt(text, i) ==
    IF /\ i + 2 <= Len(text)
       /\ text[i] = "$"
       /\ text[i + 1] = "{"
       /\ IsNameStart(text[i + 2])
    THEN LET j == NameEnd(text, i + 3)
         IN  IF j <= Len(text) /\ text[j] = "}"
             THEN [found |-> TRUE, start |-> i, end |-> j,
                   whole |-> SubSeq(text, i, j),
                   name |-> SubSeq(text, i + 2, j - 1), suffix |-> <<>>]
             ELSE IF j <= Len(text) /\ IsMarker(text[j])
             THEN LET k == SuffixEnd(text, j + 1)
                  IN  IF k <= Len(text)
                      THEN [found |-> TRUE, start |-> i, end |-> k,
                            whole |-> SubSeq(text, i, k),
                            name |-> SubSeq(text, i + 2, j - 1),
                            suffix |-> SubSeq(text, j, k - 1)]
                      ELSE NoMatch
             ELSE NoMatch
    ELSE NoMatch

\* the leftmost match starting at or after index from
RECURSIVE Find(_, _)
Find(text, from) ==
    IF from > Len(text) THEN NoMatch
    ELSE LET m == MatchAt(text, from)
         IN  IF m.found THEN m ELSE Find(text, from + 1)

----------------------------------------------------------------------------
(* validate and validate_vars.                                             *)

forbidden == <<"$", "{", "}">>

\* str::contains with a one-character pattern
Contains(value, c) == \E i \in 1..Len(value) : value[i] = c

\* format!("variable {} '{}' contains forbidden character '{}'", kind, value, c)
err_msg(kind, value, c) ==
    <<"variable ", kind, " '">> \o value
        \o <<"' contains forbidden character '", c, "'">>

\* the forbidden character that comes first in value, not first in the list
FirstForbidden_by_position(value, i) ==
    IF ~\E p \in 1..Len(value), j \in i..Len(forbidden) : value[p] = forbidden[j] THEN 0
    ELSE LET first == CHOOSE p \in 1..Len(value) :
                          /\ \E j \in i..Len(forbidden) : value[p] = forbidden[j]
                          /\ \A q \in 1..(p - 1) :
                                 \A j \in i..Len(forbidden) : value[q] # forbidden[j]
         IN  CHOOSE j \in i..Len(forbidden) : value[first] = forbidden[j]

\* the first element of forbidden, in the order of the list, that value contains
RECURSIVE FirstForbidden(_, _)
FirstForbidden(value, i) ==
    IF i > Len(forbidden) THEN 0
    ELSE IF Contains(value, forbidden[i]) THEN i
    ELSE FirstForbidden(value, i + 1)

validate(value, kind) ==
    LET i == FirstForbidden(value, 1)
    IN  IF i = 0 THEN Ok(<<>>) ELSE Err(err_msg(kind, value, forbidden[i]))

\* the orders in which a HashMap with these keys may be iterated
Orders(keys) ==
    {o \in [1..Cardinality(keys) -> keys] : \A k \in keys : \E i \in DOMAIN o : o[i] = k}

\* the loop with the check of the value left out
RECURSIVE ValidateFrom_keys_only(_, _, _)
ValidateFrom_keys_only(mapping, order, i) ==
    IF i > Len(order) THEN Ok(<<>>)
    ELSE LET rk == validate(order[i], "key")
         IN  IF rk.tag = "Err" THEN rk
             ELSE ValidateFrom_keys_only(mapping, order, i + 1)

\* the loop of validate_vars from the i-th entry of the iteration order on
RECURSIVE ValidateFrom(_, _, _)
ValidateFrom(mapping, order, i) ==
    IF i > Len(order) THEN Ok(<<>>)
    ELSE LET k == order[i]
             rk == validate(k, "key")
             rv == validate(mapping[k], "value")
         IN  IF rk.tag = "Err" THEN rk
             ELSE IF rv.tag = "Err" THEN rv
             ELSE ValidateFrom(mapping, order, i + 1)

validate_vars(mapping, order) == ValidateFrom(mapping, order, 1)

----------------------------------------------------------------------------
(* substitute and is_templated.                                            *)

\* the closure without the test for an empty value: the suffix is always attached
Replacement_keep_suffix(caps, mapping) ==
    IF caps.name \in DOMAIN mapping
    THEN mapping[caps.name] \o caps.suffix
    ELSE caps.whole

\* the closure with the suffix forgotten
Replacement_drop_suffix(caps, mapping) ==
    IF caps.name \in DOMAIN mapping
    THEN mapping[caps.name]
    ELSE caps.whole

\* the closure with an unknown variable replaced by nothing, as envsubst does
Replacement_drop_missing(caps, mapping) ==
    IF caps.name \in DOMAIN mapping
    THEN IF mapping[caps.name] # <<>>
         THEN mapping[caps.name] \o caps.suffix
         ELSE <<>>
    ELSE <<>>

\* the closure with an empty value treated like an unknown variable
Replacement_keep_empty(caps, mapping) ==
    IF caps.name \in DOMAIN mapping /\ mapping[caps.name] # <<>>
    THEN mapping[caps.name] \o caps.suffix
    ELSE caps.whole

\* the closure handed to replace_all: what one match is replaced by
Replacement(caps, mapping) ==
    IF caps.name \in DOMAIN mapping
    THEN IF mapping[caps.name] # <<>>
         THEN mapping[caps.name] \o caps.suffix
         ELSE <<>>
    ELSE caps.whole

\* Regex::replace_all from index pos on: leftmost non-overlapping matches, the
\* text between them copied, the search resumed right after each match
RECURSIVE ReplaceFrom(_, _, _)
ReplaceFrom(text, pos, mapping) ==
    LET m == Find(text, pos)
    IN  IF ~m.found THEN SubSeq(text, pos, Len(text))
        ELSE SubSeq(text, pos, m.start - 1)
                 \o Replacement(m, mapping)
                 \o ReplaceFrom(text, m.end + 1, mapping)

\* Regex::replace in the place of replace_all: only the first match is replaced
replace_first(text, mapping) ==
    LET m == Find(text, 1)
    IN  IF ~m.found THEN text
        ELSE SubSeq(text, 1, m.start - 1)
                 \o Replacement(m, mapping)
                 \o SubSeq(text, m.end + 1, Len(text))

replace_all(text, mapping) == ReplaceFrom(text, 1, mapping)

\* the matches replace_all visits from index pos on, in order
RECURSIVE ScanFrom(_, _)
ScanFrom(text, pos) ==
    LET m == Find(text, pos)
    IN  IF ~m.found THEN <<>> ELSE <<m>> \o ScanFrom(text, m.end + 1)

Scan(text) == ScanFrom(text, 1)

\* the fast path returning a fresh String in the place of the template
substitute_empty_output(text, mapping, order) ==
    IF DOMAIN mapping = {} THEN Ok(<<>>)
    ELSE LET v == validate_vars(mapping, order)
         IN  IF v.tag = "Err" THEN v
             ELSE Ok(replace_all(text, mapping))

substitute(text, mapping, order) ==
    IF DOMAIN mapping = {} THEN Ok(text)
    ELSE LET v == validate_vars(mapping, order)
         IN  IF v.tag = "Err" THEN v
             ELSE Ok(replace_all(text, mapping))

is_templated(input) == Find(input, 1).found

----------------------------------------------------------------------------
(* Inputs: the templates and mappings the functions are called with.  A    *)
(* template is either put together from pieces (literal characters and     *)
(* well-formed placeholders, as the tests of lib.rs do) or is any text of  *)
(* bounded length.  Keys and values include texts with delimiters, a value *)
(* that is itself a name, and the empty value.                             *)

\* all texts of at most n characters over the characters of set chars
RECURSIVE Texts(_, _)
Texts(chars, n) ==
    IF n = 0 THEN {<<>>}
    ELSE LET shorter == Texts(chars, n - 1)
         IN  shorter \cup {Append(t, c) : t \in {u \in shorter : Len(u) = n - 1}, c \in chars}

\* all mappings of at most n entries with keys in keys and values in values
MappingsOf(keys, values, n) ==
    UNION {[d -> values] : d \in {e \in SUBSET keys : Cardinality(e) <= n}}

\* a piece of a template: one literal character, or a well-formed placeholder
Lit(c) == [kind |-> "lit", name |-> <<>>, rest |-> <<c>>]
Ph(n, s) == [kind |-> "ph", name |-> n, rest |-> s]

PartText(p) ==
    IF p.kind = "lit" THEN p.rest ELSE <<"$", "{">> \o p.name \o p.rest \o <<"}">>

RECURSIVE Render(_)
Render(ps) == IF ps = <<>> THEN <<>> ELSE PartText(Head(ps)) \o Render(Tail(ps))

\* the pieces of a text given character by character
Chars(text) == [i \in 1..Len(text) |-> Lit(text[i])]

PartChars == {"$", "{", "}", " "}
Names == {<<"V">>, <<"v">>}
Suffixes == {<<>>, <<"-">>, <<".", "$", "{", "v">>}
PartSet == {Lit(c) : c \in PartChars} \cup {Ph(n, s) : n \in Names, s \in Suffixes}

PartSeqs(n) == UNION {[1..k -> PartSet] : k \in 0..n}

Keys == {<<"V">>, <<"v">>, <<"{">>}
Values == {<<>>, <<"v">>, <<"}", "$">>}

TextChars == {"$", "{", "}", "V", "1", ".", "!"}
TextKeys == {<<"V">>}
TextValues == {<<>>, <<"x">>, <<"$">>}

ValidateChars == {"$", "{", "}", "V"}
ValidateKeys == {<<"V">>, <<"$">>, <<"}", "{">>}

----------------------------------------------------------------------------
(* The caller.                                                             *)

Fresh ==
    /\ pc = "start"
    /\ output = None
    /\ verdict = None
    /\ detected = FALSE

\* structured templates, every mapping over Keys and Values
Init ==
    /\ parts \in PartSeqs(MaxParts)
    /\ template = Render(parts)
    /\ variables \in MappingsOf(Keys, Values, MaxVars)
    /\ Fresh

\* every text of at most MaxLen characters
InitText ==
    /\ template \in Texts(TextChars, MaxLen)
    /\ parts = Chars(template)
    /\ variables \in MappingsOf(TextKeys, TextValues, MaxVars)
    /\ Fresh

\* every mapping whose values are texts of at most MaxText characters
InitValidate ==
    /\ parts = <<>>
    /\ template = <<>>
    /\ variables \in MappingsOf(ValidateKeys, Texts(ValidateChars, MaxText), MaxVars)
    /\ Fresh

\* let out = substitute(template, &variables);
Substitute ==
    /\ pc = "start"
    /\ \E order \in Orders(DOMAIN variables) :
           output' = substitute(template, variables, order)
    /\ pc' = "substituted"
    /\ UNCHANGED <<parts, template, variables, verdict, detected>>

\* is_templated(template)
IsTemplated ==
    /\ pc = "start"
    /\ detected' = is_templated(template)
    /\ pc' = "detected"
    /\ UNCHANGED <<parts, template, variables, output, verdict>>

\* validate_vars(&variables)
ValidateVars ==
    /\ pc = "start"
    /\ \E order \in Orders(DOMAIN variables) :
           verdict' = validate_vars(variables, order)
    /\ pc' = "validated"
    /\ UNCHANGED <<parts, template, variables, output, detected>>

\* is_templated(&out) on the text substitute returned
IsTemplatedOutput ==
    /\ pc = "substituted"
    /\ output.tag = "Ok"
    /\ detected' = is_templated(output.val)
    /\ pc' = "redetected"
    /\ UNCHANGED <<parts, template, variables, output, verdict>>

Next == Substitute \/ IsTemplated \/ IsTemplatedOutput

NextValidate == ValidateVars

Spec == Init /\ [][Next]_vars

SpecText == InitText /\ [][Next]_vars

SpecValidate == InitValidate /\ [][NextValidate]_vars

----------------------------------------------------------------------------
(* What the claims speak of, stated without the matcher.                   *)

Delimiters == {"$", "{", "}"}

HasDelimiter(text) == \E i \in 1..Len(text) : text[i] \in Delimiters

\* some key or some value of the mapping contains a delimiter
HasBadEntry(mapping) ==
    \E k \in DOMAIN mapping : HasDelimiter(k) \/ HasDelimiter(mapping[k])

----------------------------------------------------------------------------
(* C1: with a non-empty mapping, substitute returns an error exactly when  *)
(* some key or some value contains '$', '{' or '}', whatever the template; *)
(* an error carries no text, and otherwise Ok is returned for every        *)
(* template.                                                               *)
ErrorIffDelimiter ==
    (pc = "substituted" /\ DOMAIN variables # {}) =>
        /\ output.tag \in {"Ok", "Err"}
        /\ output.tag = "Err" <=> HasBadEntry(variables)
        /\ output.tag = "Err" => output.val = <<>>

\* an error for a template without any placeholder, from the value of the
\* second entry of the mapping
ErrorWithoutPlaceholder ==
    /\ pc = "substituted"
    /\ output.tag = "Err"
    /\ template = <<"$", "{", " ">>
    /\ DOMAIN variables = {<<"V">>, <<"v">>}
    /\ ~HasDelimiter(variables[<<"V">>])

----------------------------------------------------------------------------
(* The laws on a template that is one placeholder, "${" + V + s + "}".     *)

\* text is "${" + k + s + "}" for some s
IsPlaceholderOf(text, k) ==
    /\ Len(text) >= Len(k) + 3
    /\ SubSeq(text, 1, 2) = <<"$", "{">>
    /\ SubSeq(text, 3, Len(k) + 2) = k
    /\ text[Len(text)] = "}"

\* the s of "${" + k + s + "}"
SuffixOf(text, k) == SubSeq(text, Len(k) + 3, Len(text) - 1)

\* a name: a letter or underscore, then letters, digits and underscores
IsName(k) ==
    /\ k # <<>>
    /\ k[1] \in Letters \cup {"_"}
    /\ \A i \in 2..Len(k) : k[i] \in Letters \cup Digits \cup {"_"}

\* a suffix: nothing, or '.' or '-' followed by characters other than '}'
IsSuffix(s) ==
    /\ \A i \in 1..Len(s) : s[i] # "}"
    /\ s = <<>> \/ s[1] \in {".", "-"}

\* C2 as stated: for a variable V with non-empty value x and any text s without
\* '}', substitute("${V" + s + "}", {V: x}) is x + s.  (Taken here for the
\* values substitute accepts only; a value with a delimiter is refused.)
SuffixLawAnyText ==
    \A k \in DOMAIN variables :
        ( /\ pc = "substituted"
          /\ DOMAIN variables = {k}
          /\ variables[k] # <<>>
          /\ ~HasDelimiter(variables[k])
          /\ IsPlaceholderOf(template, k)
          /\ \A i \in 1..Len(SuffixOf(template, k)) : SuffixOf(template, k)[i] # "}" )
        => output = Ok(variables[k] \o SuffixOf(template, k))

\* C2 as amended: for a name V, a non-empty value x without delimiters and s
\* that is empty or starts with '.' or '-' and has no '}',
\* substitute("${V" + s + "}", {V: x}) is x + s.
SuffixLaw ==
    \A k \in DOMAIN variables :
        ( /\ pc = "substituted"
          /\ DOMAIN variables = {k}
          /\ IsName(k)
          /\ variables[k] # <<>>
          /\ ~HasDelimiter(variables[k])
          /\ IsPlaceholderOf(template, k)
          /\ IsSuffix(SuffixOf(template, k)) )
        => output = Ok(variables[k] \o SuffixOf(template, k))

\* "${V.}" with V = "x" has given "x."
SuffixAttached ==
    /\ pc = "substituted"
    /\ template = <<"$", "{", "V", ".", "}">>
    /\ variables = [k \in {<<"V">>} |-> <<"x">>]
    /\ output = Ok(<<"x", ".">>)

----------------------------------------------------------------------------
(* The laws on a template given by its pieces.                             *)

IsPh(p) == p.kind = "ph"

PhParts(ps) == {i \in DOMAIN ps : IsPh(ps[i])}

\* no placeholder begins in the literal text: no three literal characters in a
\* row are '$', '{' and a character a name may start with
LiteralsInert(ps) ==
    \A i \in DOMAIN ps :
        (i + 2 <= Len(ps) /\ ~IsPh(ps[i]) /\ ~IsPh(ps[i + 1]) /\ ~IsPh(ps[i + 2]))
        => ~( /\ ps[i].rest = <<"$">>
              /\ ps[i + 1].rest = <<"{">>
              /\ ps[i + 2].rest[1] \in Letters \cup {"_"} )

\* the literal pieces alone, in order
RECURSIVE LiteralText(_)
LiteralText(ps) ==
    IF ps = <<>> THEN <<>>
    ELSE (IF IsPh(Head(ps)) THEN <<>> ELSE Head(ps).rest) \o LiteralText(Tail(ps))

\* what the claims say one piece becomes
ResolvePart(p, mapping) ==
    IF ~IsPh(p) THEN p.rest
    ELSE IF p.name \notin DOMAIN mapping THEN <<"$", "{">> \o p.name \o p.rest \o <<"}">>
    ELSE IF mapping[p.name] = <<>> THEN <<>>
    ELSE mapping[p.name] \o p.rest

RECURSIVE ResolveAll(_, _)
ResolveAll(ps, mapping) ==
    IF ps = <<>> THEN <<>>
    ELSE ResolvePart(Head(ps), mapping) \o ResolveAll(Tail(ps), mapping)

\* C3: a placeholder of a variable mapped to the empty text vanishes with its
\* suffix and its delimiters: alone it gives the empty text, and inside a longer
\* template only the literal text around such placeholders remains.
VanishingEmpty ==
    ( /\ pc = "substituted"
      /\ ~HasBadEntry(variables)
      /\ PhParts(parts) # {}
      /\ \A i \in PhParts(parts) :
             parts[i].name \in DOMAIN variables /\ variables[parts[i].name] = <<>>
      /\ LiteralsInert(parts) )
    => output = Ok(LiteralText(parts))

\* "${V.${v} ${V-}" with V = "" has given " "
TwoVanished ==
    /\ pc = "substituted"
    /\ parts = <<Ph(<<"V">>, <<".", "$", "{", "v">>), Lit(" "), Ph(<<"V">>, <<"-">>)>>
    /\ variables = [k \in {<<"V">>} |-> <<>>]
    /\ output = Ok(<<" ">>)

\* C4 as stated: substitute("${V}", vars) is "${V}" for any mapping vars that
\* does not contain V.
PassthroughAnyMapping ==
    ( /\ pc = "substituted"
      /\ Len(parts) = 1
      /\ IsPh(parts[1])
      /\ parts[1].rest = <<>>
      /\ parts[1].name \notin DOMAIN variables )
    => output = Ok(template)

\* C4 as amended: when no key and no value of vars contains a delimiter, a
\* placeholder whose name is not a key of vars is emitted unchanged, suffix and
\* delimiters included; substitute("${V}", vars) is "${V}".
UnknownPassthrough ==
    ( /\ pc = "substituted"
      /\ ~HasBadEntry(variables)
      /\ PhParts(parts) # {}
      /\ \A i \in PhParts(parts) : parts[i].name \notin DOMAIN variables
      /\ LiteralsInert(parts) )
    => output = Ok(template)

\* "${V-}{${V}" with only v in the mapping has come back unchanged
UnknownKept ==
    /\ pc = "substituted"
    /\ parts = <<Ph(<<"V">>, <<"-">>), Lit("{"), Ph(<<"V">>, <<>>)>>
    /\ variables = [k \in {<<"v">>} |-> <<"v">>]
    /\ output = Ok(template)

----------------------------------------------------------------------------
(* The detector on the output of substitute.                               *)

\* the name of every substring of text that matches the pattern
AllNames(text) ==
    {MatchAt(text, i).name : i \in {p \in 1..Len(text) : MatchAt(text, p).found}}

\* the names of the placeholders the scan matches
ScanNames(text) == {Scan(text)[i].name : i \in DOMAIN Scan(text)}

\* every '}' of text closes a placeholder the scan matches
NoStrayClose(text) ==
    LET ms == Scan(text)
    IN  \A p \in 1..Len(text) :
            text[p] = "}" => \E i \in DOMAIN ms : ms[i].end = p

\* every '$' of text opens a placeholder the scan matches
NoStrayDollar(text) ==
    LET ms == Scan(text)
    IN  \A p \in 1..Len(text) :
            text[p] = "$" => \E i \in DOMAIN ms : ms[i].start = p

\* C5 as stated: when substitute succeeds and every placeholder name occurring in
\* the template is a key of the mapping, is_templated of the output is false.
DetectorConsistencyAllNames ==
    (pc = "redetected" /\ AllNames(template) \subseteq DOMAIN variables)
    => detected = FALSE

\* C5 as amended: when substitute succeeds, every placeholder the scan matches
\* has its name in the mapping, and the template has no '}' other than the one
\* closing a matched placeholder (or no '$' other than the one opening a matched
\* placeholder), is_templated of the output is false.
DetectorConsistency ==
    ( /\ pc = "redetected"
      /\ ScanNames(template) \subseteq DOMAIN variables
      /\ NoStrayClose(template) \/ NoStrayDollar(template) )
    => detected = FALSE

\* "${V-} ${v}" with V = "v" and v = "" has given "v- ", which is not templated
FullyResolved ==
    /\ pc = "redetected"
    /\ parts = <<Ph(<<"V">>, <<"-">>), Lit(" "), Ph(<<"v">>, <<>>)>>
    /\ variables = (<<"V">> :> <<"v">>) @@ (<<"v">> :> <<>>)
    /\ output = Ok(<<"v", "-", " ">>)
    /\ detected = FALSE

\* C10: when substitute succeeds and the scan matches a placeholder whose name is
\* not a key of the mapping, is_templated of the output is true.
PartialStaysDetectable ==
    ( /\ pc = "redetected"
      /\ \E n \in ScanNames(template) : n \notin DOMAIN variables )
    => detected = TRUE

\* "${V} ${v-}" with only V in the mapping has given "v ${v-}", still templated
PartlyResolved ==
    /\ pc = "redetected"
    /\ parts = <<Ph(<<"V">>, <<>>), Lit(" "), Ph(<<"v">>, <<"-">>)>>
    /\ variables = [k \in {<<"V">>} |-> <<"v">>]
    /\ output = Ok(<<"v", " ", "$", "{", "v", "-", "}">>)
    /\ detected = TRUE

----------------------------------------------------------------------------
(* Texts of every shape.                                                   *)

\* w is "${" + name + suffix + "}"
InGrammar(w) ==
    /\ Len(w) >= 4
    /\ w[1] = "$"
    /\ w[2] = "{"
    /\ w[Len(w)] = "}"
    /\ \E n \in 1..(Len(w) - 3) :
           IsName(SubSeq(w, 3, n + 2)) /\ IsSuffix(SubSeq(w, n + 3, Len(w) - 1))

\* some substring of text is in the grammar
HasPlaceholder(text) ==
    \E i \in 1..Len(text) : \E j \in i..Len(text) : InGrammar(SubSeq(text, i, j))

\* C6: with the empty mapping substitute returns Ok with the template unchanged,
\* whatever placeholders or malformed delimiter sequences it contains.
EmptyMappingIdentity ==
    (pc = "substituted" /\ DOMAIN variables = {}) => output = Ok(template)

\* "${V.}" has come back unchanged from the empty mapping
PlaceholderKept ==
    /\ pc = "substituted"
    /\ DOMAIN variables = {}
    /\ template = <<"$", "{", "V", ".", "}">>
    /\ output = Ok(template)

\* C7: a template no substring of which is in the grammar is not templated, and
\* substitute returns it unchanged for every mapping without delimiters.
MalformedIsLiteral ==
    /\ (pc = "substituted" /\ ~HasBadEntry(variables) /\ ~HasPlaceholder(template))
       => output = Ok(template)
    /\ (pc = "detected" /\ ~HasPlaceholder(template)) => detected = FALSE

\* "${V!}" with V = "x" has come back unchanged
BangKept ==
    /\ pc = "substituted"
    /\ template = <<"$", "{", "V", "!", "}">>
    /\ variables = [k \in {<<"V">>} |-> <<"x">>]
    /\ output = Ok(template)

----------------------------------------------------------------------------
(* The validator.                                                          *)

\* the first of '$', '{', '}', in that order, that text contains
FirstDelimiter(text) ==
    IF \E i \in 1..Len(text) : text[i] = "$" THEN "$"
    ELSE IF \E i \in 1..Len(text) : text[i] = "{" THEN "{"
    ELSE "}"

\* the message names this role, this text and this character
Names3(msg, role, text, c) ==
    /\ Len(msg) = Len(text) + 6
    /\ msg[2] = role
    /\ SubSeq(msg, 4, Len(msg) - 3) = text
    /\ msg[Len(msg) - 1] = c

\* C8: validate_vars succeeds exactly when no key and no value contains a
\* delimiter; an error names an entry that violates the rule: its key with role
\* "key", or, the key being clean, its value with role "value", with the whole
\* text and the first of '$', '{', '}' that the text contains.
ErrorNamesOffender ==
    pc = "validated" =>
        /\ verdict.tag \in {"Ok", "Err"}
        /\ verdict.tag = "Ok" <=> ~HasBadEntry(variables)
        /\ verdict.tag = "Err" =>
               \E k \in DOMAIN variables :
                   \/ /\ HasDelimiter(k)
                      /\ Names3(verdict.msg, "key", k, FirstDelimiter(k))
                   \/ /\ ~HasDelimiter(k)
                      /\ HasDelimiter(variables[k])
                      /\ Names3(verdict.msg, "value", variables[k],
                                FirstDelimiter(variables[k]))

\* {"V": "}$"} is refused with role "value", text "}$" and character "$"
ValueRefused ==
    /\ pc = "validated"
    /\ variables = [k \in {<<"V">>} |-> <<"}", "$">>]
    /\ verdict = Err(<<"variable ", "value", " '", "}", "$",
                       "' contains forbidden character '", "$", "'">>)

====
